---- MODULE Spec2Model ----
(***************************************************************************)
(* SawanoBot: the chat commands of src/sawanobot/bot.py ($query, $album,   *)
(* $track, $lyrics) and the earlier single-file $query of                  *)
(* src/sawanobot.py.  Strings are TLA+ strings handled as sequences of     *)
(* characters, so that the token grammar, the LIKE patterns and the reply  *)
(* texts are computed the way the code computes them.                      *)
(***************************************************************************)
EXTENDS Integers, Sequences, FiniteSets, TLC

VARIABLES
    catalog,         \* rows of the bot's database (albums, tracks)
    legacy_db,       \* rows of the single-file bot's sqlite tables
    models,          \* SawanoBotCommands.models: table name -> model
    query_grammars,  \* SawanoBotCommands.query_grammars: table name -> grammar
    pc,              \* "idle": waiting for a command; "done": a command returned
    run,             \* what the last command did (arguments, calls it made)
    said             \* the messages the last command sent with bot.say, in order

vars == <<catalog, legacy_db, models, query_grammars, pc, run, said>>

----------------------------------------------------------------------------
(* Bounds of the model.                                                    *)

\* the longest argument list a command is given
MaxArgs == 3

----------------------------------------------------------------------------
(* Characters and strings.  An operator that needs a computed value more   *)
(* than once takes it as a parameter.                                      *)

Ch(s, i) == SubSeq(s, i, i)

Rest(s, i) == SubSeq(s, i, Len(s))

Upper == "ABCDEFGHIJKLMNOPQRSTUVWXYZ"

Lower == "abcdefghijklmnopqrstuvwxyz"

Digits == "0123456789"

RECURSIVE IndexIn(_, _, _)
\* the first index >= i of character c in s, or 0
IndexIn(s, c, i) ==
    IF i > Len(s) THEN 0
    ELSE IF Ch(s, i) = c THEN i
    ELSE IndexIn(s, c, i + 1)

IsDigit(c) == IndexIn(Digits, c, 1) # 0

IsAlpha(c) == IndexIn(Upper \o Lower, c, 1) # 0

\* str.isalnum of one character
IsAlnumChar(c) == IndexIn(Upper \o Lower \o Digits, c, 1) # 0

\* str.isalnum: non-empty and every character alphanumeric
IsAlnum(s) == Len(s) > 0 /\ \A i \in 1..Len(s) : IsAlnumChar(Ch(s, i))

LowerAt(c, i) == IF i = 0 THEN c ELSE Ch(Lower, i)

\* str.lower of one character
LowerChar(c) == LowerAt(c, IndexIn(Upper, c, 1))

\* str.endswith
EndsWith(s, suffix) ==
    Len(s) >= Len(suffix) /\ SubSeq(s, Len(s) - Len(suffix) + 1, Len(s)) = suffix

RECURSIVE Join(_, _)
\* sep.join(parts)
Join(sep, parts) ==
    IF Len(parts) = 0 THEN ""
    ELSE IF Len(parts) = 1 THEN parts[1]
    ELSE parts[1] \o sep \o Join(sep, Tail(parts))

RECURSIVE IndexOf(_, _, _)
\* list.index: the first position >= i of x in the list, or 0 when absent
IndexOf(list, x, i) ==
    IF i > Len(list) THEN 0
    ELSE IF list[i] = x THEN i
    ELSE IndexOf(list, x, i + 1)

Range(list) == {list[i] : i \in 1..Len(list)}

\* the value None
None == "<None>"

\* the backquote character of the reply texts, written as an apostrophe
\* (a TLA+ string cannot hold a backquote)
BACKQUOTE == "'"

Whitespace == {" ", "\t", "\n", "\r"}

RECURSIVE SkipWs(_, _)
\* the position of the first character at or after pos that is not whitespace
SkipWs(text, pos) ==
    IF pos <= Len(text) /\ Ch(text, pos) \in Whitespace
    THEN SkipWs(text, pos + 1)
    ELSE pos

RECURSIVE RStrip(_)
RStrip(s) ==
    IF Len(s) > 0 /\ Ch(s, Len(s)) \in Whitespace
    THEN RStrip(SubSeq(s, 1, Len(s) - 1))
    ELSE s

\* str.strip
Strip(s) == RStrip(Rest(s, SkipWs(s, 1)))

Unsigned(s) == IF Len(s) > 0 /\ Ch(s, 1) \in {"-", "+"} THEN Rest(s, 2) ELSE s

AllDigits(d) == Len(d) > 0 /\ \A i \in 1..Len(d) : IsDigit(Ch(d, i))

\* the text is an integer literal: blanks around an optional sign and digits
IsIntegerText(s) == AllDigits(Unsigned(Strip(s)))

RECURSIVE DigitsValue(_, _)
DigitsValue(d, acc) ==
    IF Len(d) = 0 THEN acc
    ELSE DigitsValue(Rest(d, 2), acc * 10 + IndexIn(Digits, Ch(d, 1), 1) - 1)

SignedValue(t) ==
    IF Ch(t, 1) = "-" THEN 0 - DigitsValue(Rest(t, 2), 0)
    ELSE DigitsValue(Unsigned(t), 0)

\* the integer an integer literal denotes
IntValue(s) == SignedValue(Strip(s))

----------------------------------------------------------------------------
(* The token grammar (TatSu PEG): start = kind op value $ .                *)

\* the kinds QUERY_GRAMMAR of bot.py names before any model is registered
BASE_KINDS == <<"catalog", "name">>

\* op = '=' | '~=' | '~'
BOT_OPS == <<"=", "~=", "~">>

\* kind = 'vocal' | 'lyricist' | 'album' | 'albumid' | 'track'
LEGACY_KINDS == <<"vocal", "lyricist", "album", "albumid", "track">>

\* op = '=' | '~'
LEGACY_OPS == <<"=", "~">>

\* QUERY_GRAMMAR of sawanobot.py
LEGACY_GRAMMAR == [kind |-> LEGACY_KINDS, op |-> LEGACY_OPS]

\* the literal token at p: the position after it, or 0.  A token that is a
\* name (alphanumeric, starting with a letter) does not match when a further
\* alphanumeric character follows it (name guard).
MatchAt(text, p, tok) ==
    IF /\ p + Len(tok) - 1 <= Len(text)
       /\ SubSeq(text, p, p + Len(tok) - 1) = tok
       /\ ~(/\ IsAlnum(tok)
            /\ IsAlpha(Ch(tok, 1))
            /\ p + Len(tok) <= Len(text)
            /\ IsAlnumChar(Ch(text, p + Len(tok))))
    THEN p + Len(tok)
    ELSE 0

\* whitespace is skipped before a token
MatchToken(text, pos, tok) == MatchAt(text, SkipWs(text, pos), tok)

RECURSIVE Choice(_, _, _, _)
RECURSIVE ChoiceTaken(_, _, _, _, _)
\* ordered choice: the first option that matches is taken
Choice(text, pos, options, i) ==
    IF i > Len(options) THEN [ok |-> FALSE, tok |-> "", pos |-> pos]
    ELSE ChoiceTaken(text, pos, options, i, MatchToken(text, pos, options[i]))

ChoiceTaken(text, pos, options, i, e) ==
    IF e # 0 THEN [ok |-> TRUE, tok |-> options[i], pos |-> e]
    ELSE Choice(text, pos, options, i + 1)

FailedParse == [ok |-> FALSE, kind |-> "", op |-> "", value |-> ""]

\* value = { /[^:]/ }+ and then the end of the text
ParseValue(k, o, value) ==
    IF Len(value) = 0 \/ IndexIn(value, ":", 1) # 0 THEN FailedParse
    ELSE [ok |-> TRUE, kind |-> k.tok, op |-> o.tok, value |-> value]

ParseOp(part, k, o) ==
    IF ~o.ok THEN FailedParse
    ELSE ParseValue(k, o, Rest(part, SkipWs(part, o.pos)))

ParseKind(grammar, part, k) ==
    IF ~k.ok THEN FailedParse
    ELSE ParseOp(part, k, Choice(part, k.pos, grammar.op, 1))

\* grammar.parse(part)
GrammarParse(grammar, part) ==
    ParseKind(grammar, part, Choice(part, 1, grammar.kind, 1))

----------------------------------------------------------------------------
(* The models of database.py and the rows of the database.                 *)

\* Album.__tablename__, Track.__tablename__
TableName(model) == IF model = "Album" THEN "albums" ELSE "tracks"

\* [column.name for column in model.__table__.c], in declaration order
Columns(model) ==
    IF model = "Album"
    THEN <<"catalog", "vgmdb_id", "name", "notes">>
    ELSE <<"id", "catalog", "disc", "track", "name", "length", "meaning",
           "composer_name", "lyrics", "info">>

\* the columns declared Column(Integer, ...)
IntegerColumns(model) ==
    IF model = "Album" THEN {} ELSE {"id", "disc", "track", "length"}

\* the attributes that are relationship(..., secondary=...) collections
RelationCollections(model) ==
    IF model = "Album" THEN {} ELSE {"vocalists", "lyricists"}

\* every attribute the model class has
Attributes(model) ==
    IF model = "Album"
    THEN Range(Columns(model)) \cup {"tracks"}
    ELSE Range(Columns(model)) \cup {"album", "composer", "vocalists", "lyricists"}

AlbumRows ==
    << [catalog |-> "SVWC-1", vgmdb_id |-> "17", name |-> "Unicorn OST",
        notes |-> None],
       [catalog |-> "SVWC-2", vgmdb_id |-> "23", name |-> "a_b",
        notes |-> "50% live"],
       [catalog |-> "SVWC-3", vgmdb_id |-> "31", name |-> "a_b live",
        notes |-> ""] >>

TrackRows ==
    << [id |-> 1, catalog |-> "SVWC-1", disc |-> 1, track |-> 1,
        name |-> "UNICORN", length |-> 95, meaning |-> None,
        composer_name |-> "Sawano", lyrics |-> None, info |-> None,
        vocalists |-> <<>>, lyricists |-> <<>>],
       [id |-> 2, catalog |-> "SVWC-1", disc |-> 1, track |-> 2,
        name |-> "Binary Star", length |-> 260, meaning |-> None,
        composer_name |-> "Sawano", lyrics |-> "la la", info |-> None,
        vocalists |-> <<"mpi", "Cyua">>, lyricists |-> <<"mpi">>],
       [id |-> 3, catalog |-> "SVWC-2", disc |-> 2, track |-> 1,
        name |-> "a b", length |-> 7, meaning |-> "ab",
        composer_name |-> "Sawano", lyrics |-> "", info |-> None,
        vocalists |-> <<"Cyua">>, lyricists |-> <<>>] >>

\* Track.album: the album the track's catalog names
AlbumOf(cat, track) ==
    cat.albums[CHOOSE i \in 1..Len(cat.albums) :
                   cat.albums[i].catalog = track.catalog]

\* Album.tracks: the tracks whose catalog is the album's
TracksOf(cat, album) ==
    SelectSeq(cat.tracks, LAMBDA t : t.catalog = album.catalog)

\* the rows Database.load of sawanobot.py inserts; albumid is a REAL column
LegacyAlbumRows ==
    << [file |-> "unicorn", album |-> "Unicorn OST", albumid |-> 17],
       [file |-> "ab", album |-> "a_b", albumid |-> 23] >>

LegacyTrackRows ==
    << [track |-> "UNICORN", album |-> "Unicorn OST", albumid |-> 17,
        vocal |-> None, lyricist |-> None, lyrics |-> None],
       [track |-> "Binary Star", album |-> "Unicorn OST", albumid |-> 17,
        vocal |-> "mpi", lyricist |-> "mpi", lyrics |-> "la la"],
       [track |-> "a b", album |-> "a_b", albumid |-> 23,
        vocal |-> "Cyua", lyricist |-> None, lyrics |-> None] >>

----------------------------------------------------------------------------
(* LIKE patterns.                                                          *)

RECURSIVE LikeEscape(_)
\* re.sub(r'([\\_%])', r'\\\1', value)
LikeEscape(value) ==
    IF Len(value) = 0 THEN ""
    ELSE (IF Ch(value, 1) \in {"\\", "_", "%"} THEN "\\" ELSE "")
             \o Ch(value, 1) \o LikeEscape(Rest(value, 2))

RECURSIVE Replace(_, _, _)
\* value.replace(old, new) for a one-character old
Replace(value, old, new) ==
    IF Len(value) = 0 THEN ""
    ELSE (IF Ch(value, 1) = old THEN new ELSE Ch(value, 1))
             \o Replace(Rest(value, 2), old, new)

Wrapped(escaped, bounded) ==
    IF ~bounded THEN "%" \o escaped \o "%" ELSE escaped

\* the mutant of fuzzy_like: the spaces are replaced before the escaping
fuzzy_like_replacing_first(value, bounded) ==
    Wrapped(LikeEscape(Replace(value, " ", "%")), bounded)

fuzzy_like(value, bounded) ==
    Wrapped(Replace(LikeEscape(value), " ", "%"), bounded)

RECURSIVE LikeMatch(_, _, _)
\* text LIKE pattern; `escape` tells whether a backslash escapes the next
\* pattern character (PostgreSQL: yes; sqlite without ESCAPE: no).
\* Case is folded, as ILIKE and sqlite's LIKE do.
LikeMatch(pattern, text, escape) ==
    IF Len(pattern) = 0 THEN Len(text) = 0
    ELSE IF Ch(pattern, 1) = "%"
    THEN \/ LikeMatch(Rest(pattern, 2), text, escape)
         \/ /\ Len(text) > 0
            /\ LikeMatch(pattern, Rest(text, 2), escape)
    ELSE IF Len(text) = 0 THEN FALSE
    ELSE IF Ch(pattern, 1) = "_"
    THEN LikeMatch(Rest(pattern, 2), Rest(text, 2), escape)
    ELSE IF Ch(pattern, 1) = "\\" /\ escape /\ Len(pattern) >= 2
    THEN /\ LowerChar(Ch(pattern, 2)) = LowerChar(Ch(text, 1))
         /\ LikeMatch(Rest(pattern, 3), Rest(text, 2), escape)
    ELSE /\ LowerChar(Ch(pattern, 1)) = LowerChar(Ch(text, 1))
         /\ LikeMatch(Rest(pattern, 2), Rest(text, 2), escape)

----------------------------------------------------------------------------
(* What a command leaves behind: the calls it made and what it sent.       *)

\* one bot.say: the text, and the library text interpolated into it (the
\* parser's message about a part, or the traceback of a fault)
Say(text, detail) == [text |-> text, detail |-> detail]

NoRun(cmd, args) ==
    [cmd |-> cmd, args |-> args,
     fault |-> "none",          \* the exception the handler raised, if any
     model |-> None,            \* what get_model returned
     tokenized |-> FALSE,       \* the field clause was looked for
     query |-> <<>>,            \* the filter tokens left after the clause
     formatter |-> None,        \* the delimiter that was honoured
     requested |-> {},          \* requested_fields
     parse_called |-> FALSE,    \* parse_query was called
     parts_parsed |-> 0,        \* how many parts went through the grammar
     parse_ok |-> FALSE,        \* parse_query returned a list, not None
     criteria |-> <<>>,         \* the list parse_query returned
     executed |-> <<>>,         \* every query run against the database
     show_called |-> FALSE,     \* show_query_results was called
     fields |-> {},             \* fields_to_show
     results |-> <<>>,          \* the rows handed to show_query_results
     to_show |-> <<>>,          \* the info dict built for each row
     logged |-> <<>>,           \* logger.error calls
     said |-> <<>>]             \* bot.say calls

----------------------------------------------------------------------------
(* SawanoBotCommands of bot.py: the registry and the token parser.         *)

\* the mutant of RegisteredKinds: one grammar, with the fields of every
\* model, shared by all models
RegisteredKinds_shared(model, extra_fields) ==
    [kind |-> BASE_KINDS \o Columns("Album") \o Columns("Track")
                  \o <<"vocalists", "lyricists">>,
     op |-> BOT_OPS]

\* register_model: the grammar's kinds are the base kinds, then the model's
\* columns, then the extra fields
RegisteredKinds(model, extra_fields) ==
    [kind |-> BASE_KINDS \o Columns(model) \o extra_fields, op |-> BOT_OPS]

\* the mutant of fields: the fields left out of the defaults are kept
fields_keeping_hidden(model) ==
    IF model = "Album"
    THEN Range(Columns(model)) \cup {"catalog", "cover_art", "tracks"}
    ELSE Range(Columns(model)) \cup {"album", "vocalists", "lyricists"}

fields(model) ==
    IF model = "Album"
    THEN (Range(Columns(model)) \cup {"catalog", "cover_art", "tracks"})
             \ {"notes"}
    ELSE (Range(Columns(model)) \cup {"album", "vocalists", "lyricists"})
             \ {"lyrics"}

NotQueryable(name) == name \o " is not something that can be queried."

\* get_model: `normalized` is bound only when the name does not end in "s"
get_model(name) ==
    IF EndsWith(name, "s")
    THEN [fault |-> "UnboundLocalError", model |-> None,
          said |-> <<>>, logged |-> <<>>]
    ELSE IF name \o "s" \notin DOMAIN query_grammars
    THEN [fault |-> "none", model |-> None,
          said |-> <<Say(NotQueryable(name), "")>>,
          logged |-> <<NotQueryable(name)>>]
    ELSE [fault |-> "none", model |-> models[name \o "s"],
          said |-> <<>>, logged |-> <<>>]

\* the mutant of Criterion: a related name is compared by equality with
\* the raw value, whatever the operator
Criterion_relation_by_equality(column_name, op, value) ==
    [column |-> column_name,
     any |-> column_name \in {"vocalists", "lyricists"},
     operator |-> IF op = "=" \/ column_name \in {"vocalists", "lyricists"}
                  THEN "eq" ELSE "ilike_op",
     value |-> IF op = "=" \/ column_name \in {"vocalists", "lyricists"}
               THEN value ELSE fuzzy_like(value, op = "~=")]

\* the criterion parse_query appends for one parsed part
Criterion(column_name, op, value) ==
    [column |-> column_name,
     any |-> column_name \in {"vocalists", "lyricists"},
     operator |-> IF op = "=" THEN "eq" ELSE "ilike_op",
     value |-> IF op = "=" THEN value ELSE fuzzy_like(value, op = "~=")]

ParseStopped(ok, fault, criteria, parts_parsed, messages, errors) ==
    [ok |-> ok, fault |-> fault, criteria |-> criteria,
     parts_parsed |-> parts_parsed, said |-> messages, logged |-> errors]

RECURSIVE parse_parts(_, _, _, _)
RECURSIVE parse_part(_, _, _, _, _)
\* the loop of parse_query over query[i..], criteria collected so far
parse_parts(model, query, i, criteria) ==
    IF i > Len(query)
    THEN ParseStopped(TRUE, "none", criteria, Len(query), <<>>, <<>>)
    ELSE parse_part(model, query, i, criteria,
             GrammarParse(query_grammars[TableName(model)], query[i]))

\* one part: FailedParse is reported and ends the parse; getattr(model,
\* column_name) raises for a name the model class does not have
parse_part(model, query, i, criteria, r) ==
    IF ~r.ok
    THEN ParseStopped(FALSE, "none", <<>>, i,
                      <<Say("Invalid query: ", query[i])>>,
                      <<"FailedParse " \o query[i]>>)
    ELSE IF r.kind \notin Attributes(model)
    THEN ParseStopped(FALSE, "AttributeError", <<>>, i, <<>>, <<>>)
    ELSE parse_parts(model, query, i + 1,
                     Append(criteria, Criterion(r.kind, r.op, r.value)))

parse_query(model, query) == parse_parts(model, query, 1, <<>>)

----------------------------------------------------------------------------
(* The database behind the queries of bot.py (PostgreSQL).                 *)

Table(model) == IF model = "Album" THEN catalog.albums ELSE catalog.tracks

\* the error the database raises for one criterion, or "none": an integer
\* column has no ILIKE operator and takes no text that is not an integer
CriterionFault(model, c) ==
    IF c.any \/ c.column \notin IntegerColumns(model) THEN "none"
    ELSE IF c.operator = "ilike_op" THEN "ProgrammingError"
    ELSE IF ~IsIntegerText(c.value) THEN "DataError"
    ELSE "none"

RECURSIVE FirstFault(_, _, _)
FirstFault(model, criteria, i) ==
    IF i > Len(criteria) THEN "none"
    ELSE IF CriterionFault(model, criteria[i]) # "none"
    THEN CriterionFault(model, criteria[i])
    ELSE FirstFault(model, criteria, i + 1)

\* a text value against one criterion; NULL satisfies nothing
TextMatches(text, c) ==
    /\ text # None
    /\ IF c.operator = "eq" THEN text = c.value
       ELSE LikeMatch(c.value, text, TRUE)

Satisfies(model, row, c) ==
    IF c.any
    THEN \E i \in 1..Len(row[c.column]) : TextMatches(row[c.column][i], c)
    ELSE IF c.column \in IntegerColumns(model)
    THEN row[c.column] = IntValue(c.value)
    ELSE TextMatches(row[c.column], c)

\* the mutant of Executed: the rows satisfying some criterion
Executed_any_criterion(model, criteria, fault) ==
    IF fault # "none" THEN [fault |-> fault, results |-> <<>>]
    ELSE [fault |-> "none",
          results |-> SelectSeq(Table(model), LAMBDA row :
                          \E i \in 1..Len(criteria) :
                              Satisfies(model, row, criteria[i]))]

Executed(model, criteria, fault) ==
    IF fault # "none" THEN [fault |-> fault, results |-> <<>>]
    ELSE [fault |-> "none",
          results |-> SelectSeq(Table(model), LAMBDA row :
                          \A i \in 1..Len(criteria) :
                              Satisfies(model, row, criteria[i]))]

\* Query.filter(...).all(): the rows satisfying every criterion
Execute(model, criteria) ==
    Executed(model, criteria, FirstFault(model, criteria, 1))

NameCriteria(name, bounded) ==
    <<[column |-> "name", any |-> FALSE, operator |-> "ilike_op",
       value |-> fuzzy_like(name, bounded)]>>

Call(model, criteria) == [model |-> model, criteria |-> criteria]

\* the mutant of SearchedBounded: the unbounded search is always run and
\* its rows returned
SearchedBounded_always_unbounded(model_type, name, first) ==
    [results |-> Execute(model_type, NameCriteria(name, FALSE)).results,
     executed |-> <<Call(model_type, NameCriteria(name, TRUE)),
                    Call(model_type, NameCriteria(name, FALSE))>>]

SearchedBounded(model_type, name, first) ==
    IF Len(first.results) > 0
    THEN [results |-> first.results,
          executed |-> <<Call(model_type, NameCriteria(name, TRUE))>>]
    ELSE [results |-> Execute(model_type, NameCriteria(name, FALSE)).results,
          executed |-> <<Call(model_type, NameCriteria(name, TRUE)),
                         Call(model_type, NameCriteria(name, FALSE))>>]

\* search_by_name: the bounded pattern first, the unbounded one only when
\* the bounded one found nothing
search_by_name(model_type, name) ==
    SearchedBounded(model_type, name,
                    Execute(model_type, NameCriteria(name, TRUE)))

----------------------------------------------------------------------------
(* show_query_results of bot.py.                                           *)

Entry(key, value) == <<[key |-> key, value |-> value]>>

\* the info dict of one track, in insertion order
TrackInfo(result, fields_to_show) ==
    (IF "name" \in fields_to_show THEN Entry("Name", result.name) ELSE <<>>)
    \o (IF "album" \in fields_to_show
        THEN Entry("Album", AlbumOf(catalog, result).name) ELSE <<>>)
    \o (IF "vocalists" \in fields_to_show /\ Len(result.vocalists) > 0
        THEN Entry("Vocalist(s)", Join(", ", result.vocalists)) ELSE <<>>)
    \o (IF "lyricists" \in fields_to_show /\ Len(result.lyricists) > 0
        THEN Entry("Lyricist(s)", Join(", ", result.lyricists)) ELSE <<>>)
    \o (IF "lyrics" \in fields_to_show /\ result.lyrics # None
        THEN Entry("Lyrics", "\n" \o result.lyrics) ELSE <<>>)

BulletLines(tracks) ==
    [i \in 1..Len(tracks) |->
        "- " \o BACKQUOTE \o tracks[i].name \o BACKQUOTE]

\* the info dict of one album; Album has no cover_art attribute, so
\* show_query_results raises before this is built when cover_art is shown
AlbumInfo(result, fields_to_show) ==
    (IF "name" \in fields_to_show THEN Entry("Name", result.name) ELSE <<>>)
    \o (IF "catalog" \in fields_to_show
        THEN Entry("Catalog number", result.catalog) ELSE <<>>)
    \o (IF "vgmdb_id" \in fields_to_show
        THEN Entry("VGMdb URL", "https://vgmdb.net/album/" \o result.vgmdb_id)
        ELSE <<>>)
    \o (IF "tracks" \in fields_to_show
        THEN Entry("Tracks",
                   "\n" \o Join("\n", BulletLines(TracksOf(catalog, result))))
        ELSE <<>>)
    \o (IF "notes" \in fields_to_show /\ result.notes \notin {None, ""}
        THEN Entry("Notes", result.notes) ELSE <<>>)

KeyValueLines(item) ==
    [i \in 1..Len(item) |-> "**" \o item[i].key \o ":** " \o item[i].value]

\* the message for one info dict: nothing when empty, the bare value when
\* there is one entry, "**key:** value" lines otherwise
ItemMessage(item) ==
    IF Len(item) = 0 THEN <<>>
    ELSE IF Len(item) = 1 THEN <<Say(item[1].value, "")>>
    ELSE <<Say(Join("\n", KeyValueLines(item)), "")>>

RECURSIVE ItemMessages(_)
ItemMessages(to_show) ==
    IF Len(to_show) = 0 THEN <<>>
    ELSE ItemMessage(Head(to_show)) \o ItemMessages(Tail(to_show))

CountLine(results) == Say(ToString(Len(results)) \o " result(s) found!", "")

InfoList(model, results, fields_to_show) ==
    [i \in 1..Len(results) |->
        IF model = "Track" THEN TrackInfo(results[i], fields_to_show)
        ELSE AlbumInfo(results[i], fields_to_show)]

Shown(results, to_show) ==
    [fault |-> "none", to_show |-> to_show,
     said |-> <<CountLine(results)>> \o ItemMessages(to_show)]

show_query_results(model, results, fields_to_show) ==
    IF model = "Album" /\ Len(results) > 0 /\ "cover_art" \in fields_to_show
    THEN [fault |-> "AttributeError", to_show |-> <<>>, said |-> <<>>]
    ELSE Shown(results, InfoList(model, results, fields_to_show))

----------------------------------------------------------------------------
(* The commands of bot.py.                                                 *)

\* the delimiters of the field clause, in the order the code looks for them
FORMATTERS == <<":", ":-">>

\* `if formatter in query`, for each formatter in turn
FoundFormatters(query) ==
    SelectSeq(FORMATTERS, LAMBDA f : f \in Range(query))

Clause(formatter, requested_fields, query, fields_to_show) ==
    [formatter |-> formatter, requested |-> requested_fields,
     query |-> query, fields |-> fields_to_show]

\* the mutant of ClauseAt: the delimiter stays among the filter tokens
ClauseAt_keeping_delimiter(model, query, formatter, index) ==
    Clause(formatter,
           Range(SubSeq(query, index + 1, Len(query))),
           SubSeq(query, 1, index),
           IF formatter = ":"
           THEN Range(SubSeq(query, index + 1, Len(query)))
           ELSE fields(model) \ Range(SubSeq(query, index + 1, Len(query))))

\* the mutant of ClauseAt: only the name typed first is requested
ClauseAt_first_name_only(model, query, formatter, index) ==
    Clause(formatter,
           {query[i] : i \in {index + 1} \cap DOMAIN query},
           SubSeq(query, 1, index - 1),
           IF formatter = ":"
           THEN {query[i] : i \in {index + 1} \cap DOMAIN query}
           ELSE fields(model) \ {query[i] : i \in {index + 1} \cap DOMAIN query})

\* the body of `if formatter in query:`, index = query.index(formatter)
ClauseAt(model, query, formatter, index) ==
    Clause(formatter,
           Range(SubSeq(query, index + 1, Len(query))),
           SubSeq(query, 1, index - 1),
           IF formatter = ":"
           THEN Range(SubSeq(query, index + 1, Len(query)))
           ELSE fields(model) \ Range(SubSeq(query, index + 1, Len(query))))

ClauseOf(model, query, found) ==
    IF Len(found) = 0 THEN Clause(None, {}, query, fields(model))
    ELSE ClauseAt(model, query, Head(found), IndexOf(query, Head(found), 1))

\* query, the loop `for formatter in ':', ':-'` with its break: the first
\* formatter of FORMATTERS found anywhere in the arguments is honoured, at
\* its first index
field_clause(model, query) == ClauseOf(model, query, FoundFormatters(query))

QueryShown(r, results, sh) ==
    [r EXCEPT !.show_called = TRUE, !.results = results,
              !.fault = sh.fault, !.to_show = sh.to_show, !.said = sh.said]

QueryExecuted(r, ex) ==
    IF ex.fault # "none" THEN [r EXCEPT !.fault = ex.fault]
    ELSE QueryShown(r, ex.results,
                    show_query_results(r.model, ex.results, r.fields))

QueryParsed(r, pq) ==
    IF ~pq.ok THEN r
    ELSE QueryExecuted([r EXCEPT !.executed = <<Call(r.model, pq.criteria)>>],
                       Execute(r.model, pq.criteria))

QueryClause(r, fc, pq) ==
    QueryParsed([r EXCEPT !.tokenized = TRUE, !.query = fc.query,
                          !.formatter = fc.formatter,
                          !.requested = fc.requested, !.fields = fc.fields,
                          !.parse_called = TRUE,
                          !.parts_parsed = pq.parts_parsed,
                          !.parse_ok = pq.ok, !.criteria = pq.criteria,
                          !.fault = pq.fault,
                          !.said = pq.said, !.logged = pq.logged],
                pq)

QueryTokens(r, fc) == QueryClause(r, fc, parse_query(r.model, fc.query))

QueryModel(r, args, gm) ==
    IF gm.fault # "none" \/ gm.model = None
    THEN [r EXCEPT !.fault = gm.fault, !.said = gm.said,
                   !.logged = gm.logged]
    ELSE QueryTokens([r EXCEPT !.model = gm.model],
                     field_clause(gm.model, Tail(args)))

\* the mutant of query: a lone argument is let through
query_one_argument(args) ==
    IF Len(args) < 1
    THEN [NoRun("query", args) EXCEPT
              !.said = <<Say("$query needs a query (duh)", "")>>]
    ELSE QueryModel(NoRun("query", args), args, get_model(Head(args)))

\* the query command of bot.py
query(args) ==
    IF Len(args) < 2
    THEN [NoRun("query", args) EXCEPT
              !.said = <<Say("$query needs a query (duh)", "")>>]
    ELSE QueryModel(NoRun("query", args), args, get_model(Head(args)))

NameShown(r, found, sh) ==
    [r EXCEPT !.executed = found.executed, !.show_called = TRUE,
              !.results = found.results, !.fault = sh.fault,
              !.to_show = sh.to_show, !.said = sh.said]

NameFound(r, found) ==
    NameShown(r, found, show_query_results(r.model, found.results, r.fields))

\* album, track and lyrics: a name search, then the rows shown with
\* fields_to_show
name_command(cmd, model, usage, fields_to_show, args) ==
    IF Len(args) < 1
    THEN [NoRun(cmd, args) EXCEPT !.said = <<Say(usage, "")>>]
    ELSE NameFound([NoRun(cmd, args) EXCEPT !.model = model,
                                            !.fields = fields_to_show],
                   search_by_name(model, Join(" ", args)))

album(args) ==
    name_command("album", "Album",
                 "This needs an album" \o BACKQUOTE \o " to search for.",
                 fields("Album"), args)

track(args) ==
    name_command("track", "Track", "This needs a track to search for.",
                 fields("Track"), args)

lyrics(args) ==
    name_command("lyrics", "Track", "This needs a track to search for.",
                 {"lyrics"}, args)

\* the wrapper of safe_command, func_name being func.__name__: a fault of
\* the handler is logged and reported to the user with the function's name
\* and the traceback
safe_wrapper(out, func_name) ==
    IF out.fault = "none" THEN out
    ELSE [out EXCEPT
            !.logged = @ \o <<"Fatal error inside " \o func_name \o "!!!!",
                              out.fault>>,
            !.said = @ \o <<Say("*BOOOOOOOM* Function where the error occurred: "
                                    \o BACKQUOTE \o func_name \o BACKQUOTE,
                                out.fault)>>]

\* safe_command: both bots name their query handler `query`
safe_command(out) ==
    safe_wrapper(out, IF out.cmd = "legacy_query" THEN "query" ELSE out.cmd)

----------------------------------------------------------------------------
(* The query command of sawanobot.py, the single-file bot.                 *)

Item(kind, op, value, is_int) ==
    [kind |-> kind, op |-> op, value |-> value, is_int |-> is_int]

LegacyParsed(ok, items, parts_parsed, messages, errors) ==
    [ok |-> ok, items |-> items, parts_parsed |-> parts_parsed,
     said |-> messages, logged |-> errors]

RECURSIVE legacy_parse_parts(_, _, _, _, _)
RECURSIVE legacy_parse_part(_, _, _, _, _, _)
RECURSIVE legacy_item(_, _, _, _, _, _, _, _)
\* the loop of parse_query over query[1:]
legacy_parse_parts(parts, i, items, messages, errors) ==
    IF i > Len(parts)
    THEN LegacyParsed(TRUE, items, Len(parts), messages, errors)
    ELSE legacy_parse_part(parts, i, items, messages, errors,
                           GrammarParse(LEGACY_GRAMMAR, parts[i]))

legacy_parse_part(parts, i, items, messages, errors, r) ==
    IF ~r.ok
    THEN LegacyParsed(FALSE, <<>>, i,
                      messages \o <<Say("Invalid query: ", parts[i])>>,
                      errors \o <<"FailedParse " \o parts[i]>>)
    ELSE legacy_item(parts, i, items, messages, errors,
                     r.kind, r.op, Replace(r.value, "+", " "))

\* an album id that is no integer is reported, and the part is kept
legacy_item(parts, i, items, messages, errors, kind, op, value) ==
    IF kind = "albumid" /\ ~IsIntegerText(value)
    THEN legacy_parse_parts(parts, i + 1,
             Append(items, Item(kind, op, value, FALSE)),
             messages \o <<Say(value \o " isn't a valid album id", "")>>,
             errors \o <<"Bad integer " \o value>>)
    ELSE legacy_parse_parts(parts, i + 1,
             Append(items, Item(kind, op, value, kind = "albumid")),
             messages, errors)

legacy_parse_query(args) == legacy_parse_parts(Tail(args), 1, <<>>, <<>>, <<>>)

\* the parameter run_query binds for an item (text items)
LegacyParameter(item) ==
    IF item.op = "~"
    THEN "%" \o Replace(LikeEscape(item.value), " ", "%") \o "%"
    ELSE LikeEscape(item.value)

\* the text sqlite compares with LIKE: a REAL column reads as "17.0"
LegacyText(row, kind) ==
    IF kind = "albumid" THEN ToString(row[kind]) \o ".0" ELSE row[kind]

\* `kind like ?` for a text item, `kind == ?` for an integer one
LegacySatisfies(row, item) ==
    IF item.is_int THEN row[item.kind] = IntValue(item.value)
    ELSE /\ LegacyText(row, item.kind) # None
         /\ LikeMatch(LegacyParameter(item), LegacyText(row, item.kind), FALSE)

LegacyTable(table) ==
    IF table = "tracks" THEN legacy_db.tracks ELSE legacy_db.albums

LegacyColumns(table) ==
    IF table = "tracks"
    THEN {"track", "album", "albumid", "vocal", "lyricist", "lyrics"}
    ELSE {"file", "album", "albumid"}

\* the parameters run_query binds, one per item
LegacyBound(items) ==
    [i \in 1..Len(items) |->
        [items[i] EXCEPT !.value = LegacyParameter(items[i])]]

\* run_query after the table is known: like_escape(item.value).replace
\* raises for an integer value; sqlite raises for a column the table lacks
LegacyExecute(table, items) ==
    IF \E i \in 1..Len(items) : items[i].is_int /\ items[i].op = "~"
    THEN [fault |-> "AttributeError", executed |-> <<>>, results |-> <<>>]
    ELSE IF \E i \in 1..Len(items) : items[i].kind \notin LegacyColumns(table)
    THEN [fault |-> "OperationalError", executed |-> <<Call(table, LegacyBound(items))>>,
          results |-> <<>>]
    ELSE [fault |-> "none", executed |-> <<Call(table, LegacyBound(items))>>,
          results |-> SelectSeq(LegacyTable(table), LAMBDA row :
                          \A i \in 1..Len(items) :
                              LegacySatisfies(row, items[i]))]

LegacyTrackInfo(result) ==
    Entry("Name", BACKQUOTE \o result.track \o BACKQUOTE)
    \o Entry("Album", result.album)
    \o Entry("VGMdb album id", ToString(result.albumid))
    \o (IF result.vocal # None
        THEN Entry("Vocalist(s)", result.vocal) ELSE <<>>)
    \o (IF result.lyricist # None
        THEN Entry("Lyricist(s)", result.lyricist) ELSE <<>>)
    \o (IF result.lyrics # None
        THEN Entry("Lyrics", "\n\n" \o result.lyrics) ELSE <<>>)

LegacyBulletLines(tracks) ==
    [i \in 1..Len(tracks) |->
        "- " \o BACKQUOTE \o tracks[i].track \o BACKQUOTE]

LegacyAlbumInfo(result) ==
    Entry("Name", result.album)
    \o Entry("VGMdb album id", ToString(result.albumid))
    \o Entry("Tracks",
             "\n\n" \o Join("\n", LegacyBulletLines(
                 SelectSeq(legacy_db.tracks,
                           LAMBDA t : t.albumid = result.albumid))))

LegacyInfoList(what, results) ==
    [i \in 1..Len(results) |->
        IF what = "track" THEN LegacyTrackInfo(results[i])
        ELSE LegacyAlbumInfo(results[i])]

LegacyItemMessages(to_show) ==
    [i \in 1..Len(to_show) |-> Say(Join("\n", KeyValueLines(to_show[i])), "")]

\* show_query_results of sawanobot.py
LegacyShown(r, results, to_show) ==
    [r EXCEPT !.show_called = TRUE, !.results = results,
              !.to_show = to_show,
              !.said = @ \o <<CountLine(results)>>
                         \o LegacyItemMessages(to_show)]

LegacyRan(r, what, ex) ==
    IF ex.fault # "none"
    THEN [r EXCEPT !.fault = ex.fault, !.executed = ex.executed]
    ELSE LegacyShown([r EXCEPT !.executed = ex.executed], ex.results,
                     LegacyInfoList(what, ex.results))

\* run_query: the table is chosen before the parameters are built
LegacyRun(r, what, items) ==
    IF what \notin {"track", "album"}
    THEN [r EXCEPT !.said = @ \o <<Say("Invalid item to query: " \o what, "")>>,
                   !.logged = @ \o <<"Invalid query item " \o what,
                                     "Query run failed!">>]
    ELSE LegacyRan([r EXCEPT !.model = what \o "s"], what,
                   LegacyExecute(what \o "s", items))

LegacyQueryParsed(r, args, pq) ==
    IF ~pq.ok
    THEN [r EXCEPT !.parse_called = TRUE, !.parts_parsed = pq.parts_parsed,
                   !.said = pq.said,
                   !.logged = pq.logged \o <<"Query parsing failed!">>]
    ELSE LegacyRun([r EXCEPT !.parse_called = TRUE, !.parse_ok = TRUE,
                             !.parts_parsed = pq.parts_parsed,
                             !.criteria = pq.items,
                             !.said = pq.said, !.logged = pq.logged],
                   Head(args), pq.items)

\* the query command of sawanobot.py
legacy_query(args) ==
    IF Len(args) < 2
    THEN [NoRun("legacy_query", args) EXCEPT
              !.said = <<Say("$query needs a query (duh)", "")>>]
    ELSE LegacyQueryParsed([NoRun("legacy_query", args) EXCEPT
                                !.query = Tail(args)],
                           args, legacy_parse_query(args))

----------------------------------------------------------------------------
(* The arguments the commands are given.                                   *)

SeqsUpTo(S, n) == UNION {[1..k -> S] : k \in 0..n}

\* first arguments of $query
Selectors == {"track", "album", "tracks", "foo"}

\* further arguments of $query: delimiters, field names, filter tokens
QueryWords ==
    {":", ":-", "name", "lyrics", "bogus",
     "name~=a b", "vocalists~mpi", "lyricists=mpi", "foo=bar",
     "disc=1", "disc=x", "disc~1"}

\* the argument lists the specification gives as scenarios
ScenarioArgs ==
    {<<"track", "lyricist=mpi", ":", "name", "lyrics">>,
     <<"track", "name~x", ":-", "a", ":", "b">>,
     <<"track", "name~=a b", ":", "name", "lyrics">>,
     <<"album", "name~a_b", ":", "name", "notes">>,
     <<"track", ":", "lyrics", "name", "lyrics">>,
     <<"album", "notes~50% l", "name~=a\\_b">>,
     <<"track", "name=a+b c">>,
     <<"track", "name=">>,
     <<"track", "name~re:zero">>,
     <<"track", "name~=">>,
     <<"track", "lyricists~=mpi", "name~=a b">>}

QueryArgs ==
    {<<>>} \cup ScenarioArgs
    \cup {<<sel>> \o rest : sel \in Selectors,
                            rest \in SeqsUpTo(QueryWords, MaxArgs - 1)}

\* arguments of $album, $track and $lyrics
NameWords == {"uni", "a", "a_b", "50%", "\\"}

NameArgs == SeqsUpTo(NameWords, MaxArgs)

\* arguments of the single-file bot's $query
LegacyWords ==
    {"vocal=mpi", "albumid=17", "albumid=notanumber", "albumid~17",
     "album~uni", "foo=bar", "album~a_b+x",
     "vocal=MPI", "album=a_b"}

LegacyArgs ==
    {<<>>, <<"track", "lyricist=mpi", "vocal=cyua", "album~unicorn">>}
    \cup {<<sel>> \o rest : sel \in {"track", "album", "foo"},
                                   rest \in SeqsUpTo(LegacyWords, MaxArgs - 1)}

----------------------------------------------------------------------------
(* The state machine.                                                      *)

Observed(out) == [f \in DOMAIN out \ {"said"} |-> out[f]]

Init ==
    /\ catalog = [albums |-> AlbumRows, tracks |-> TrackRows]
    /\ legacy_db = [albums |-> LegacyAlbumRows, tracks |-> LegacyTrackRows]
    /\ models = ("albums" :> "Album") @@ ("tracks" :> "Track")
    /\ query_grammars =
           ("albums" :> RegisteredKinds("Album", <<>>))
           @@ ("tracks" :> RegisteredKinds("Track", <<"vocalists", "lyricists">>))
    /\ pc = "idle"
    /\ run = Observed(NoRun("", <<>>))
    /\ said = <<>>

\* one command runs to completion; `out` is what safe_command returns
\* the mutant of Handle: the names of a field clause are struck from the
\* registered grammars
Handle_persisting_clause(out) ==
    /\ pc = "idle"
    /\ pc' = "done"
    /\ run' = Observed(out)
    /\ said' = out.said
    /\ query_grammars' =
           [t \in DOMAIN query_grammars |->
               [query_grammars[t] EXCEPT
                   !.kind = SelectSeq(@, LAMBDA k : k \notin out.requested)]]
    /\ UNCHANGED <<catalog, legacy_db, models>>

Handle(out) ==
    /\ pc = "idle"
    /\ pc' = "done"
    /\ run' = Observed(out)
    /\ said' = out.said
    /\ UNCHANGED <<catalog, legacy_db, models, query_grammars>>

Query == \E args \in QueryArgs : Handle(safe_command(query(args)))

Album == \E args \in NameArgs : Handle(safe_command(album(args)))

Track == \E args \in NameArgs : Handle(safe_command(track(args)))

Lyrics == \E args \in NameArgs : Handle(safe_command(lyrics(args)))

LegacyQuery == \E args \in LegacyArgs : Handle(safe_command(legacy_query(args)))

\* the command returned; nothing of the invocation is kept
NextInvocation ==
    /\ pc = "done"
    /\ pc' = "idle"
    /\ run' = Observed(NoRun("", <<>>))
    /\ said' = <<>>
    /\ UNCHANGED <<catalog, legacy_db, models, query_grammars>>

Next == Query \/ Album \/ Track \/ Lyrics \/ LegacyQuery \/ NextInvocation

Spec == Init /\ [][Next]_vars

----------------------------------------------------------------------------
(* What the specification says of a command, stated without the code's own *)
(* tokenizer and registry.                                                 *)

IsDone(cmds) == pc = "done" /\ run.cmd \in cmds

\* the fields of a model that take integers, for the command that ran
NumericKinds ==
    IF run.cmd = "legacy_query" THEN {"albumid"} ELSE IntegerColumns(run.model)

GrammarOfRun ==
    IF run.cmd = "legacy_query" THEN LEGACY_GRAMMAR
    ELSE query_grammars[TableName(run.model)]

TextOperatorOnNumber(r) == r.ok /\ r.kind \in NumericKinds /\ r.op # "="

NonIntegerValue(r) ==
    r.ok /\ r.kind \in NumericKinds /\ ~IsIntegerText(r.value)

\* the token fails validation: it does not parse, or it puts a text operator
\* or a value that is no integer on a numeric field
FailsValidation(r) == ~r.ok \/ TextOperatorOnNumber(r) \/ NonIntegerValue(r)

ParsedToken(i) == GrammarParse(GrammarOfRun, run.query[i])

\* token i is the first token of the command that fails validation
FirstFailing(i) ==
    /\ i \in 1..Len(run.query)
    /\ FailsValidation(ParsedToken(i))
    /\ \A j \in 1..(i - 1) : ~FailsValidation(ParsedToken(j))

RECURSIVE FirstOperator(_, _)
\* the index of the first "=" or "~" of a token, or one past its end
FirstOperator(part, i) ==
    IF i > Len(part) \/ Ch(part, i) \in {"=", "~"} THEN i
    ELSE FirstOperator(part, i + 1)

\* the field name a raw token starts with
FieldName(part) == SubSeq(part, 1, FirstOperator(part, 1) - 1)

\* the fields registered for filtering, per entity kind
Vocabulary(model) ==
    IF model = "Album" THEN {"catalog", "vgmdb_id", "name", "notes"}
    ELSE {"id", "catalog", "disc", "track", "name", "length", "meaning",
          "composer_name", "lyrics", "info", "vocalists", "lyricists"}

\* the default display fields, per entity kind
DefaultDisplayFields(model) ==
    IF model = "Album"
    THEN {"catalog", "vgmdb_id", "name", "cover_art", "tracks"}
    ELSE {"id", "catalog", "disc", "track", "name", "length", "meaning",
          "composer_name", "info", "album", "vocalists", "lyricists"}

IsDelimiter(arg) == arg \in {":", ":-"}

RECURSIVE FirstDelimiter(_, _)
\* the smallest index of a ":" or ":-" argument, or 0
FirstDelimiter(rest, i) ==
    IF i > Len(rest) THEN 0
    ELSE IF IsDelimiter(rest[i]) THEN i
    ELSE FirstDelimiter(rest, i + 1)

NamesAfter(rest, d) == Range(SubSeq(rest, d + 1, Len(rest)))

\* the field set the clause at index d of rest (0: no clause) resolves to
ResolvedFields(model, rest, d) ==
    IF d = 0 THEN DefaultDisplayFields(model)
    ELSE IF rest[d] = ":" THEN NamesAfter(rest, d)
    ELSE DefaultDisplayFields(model) \ NamesAfter(rest, d)

NeedsQuery == <<Say("$query needs a query (duh)", "")>>

----------------------------------------------------------------------------
(* The claims.                                                             *)

\* C1: when a filter token of a query command fails validation, parsing
\* stops at the first such token, the database is never queried, nothing is
\* rendered, and the only reply is the error for that token.
C1_FailingTokenStopsQuery ==
    \A i \in 1..Len(run.query) :
        (IsDone({"query", "legacy_query"}) /\ run.parse_called /\ FirstFailing(i))
        => /\ run.parts_parsed = i
           /\ ~run.parse_ok
           /\ run.executed = <<>>
           /\ ~run.show_called
           /\ Len(said) = 1

C3_NonIntegerValueRejected ==
    \A i \in 1..Len(run.query) :
        (/\ IsDone({"query", "legacy_query"}) /\ run.parse_called
         /\ FirstFailing(i)
         /\ NonIntegerValue(ParsedToken(i)))
        => /\ ~run.parse_ok
           /\ Len(run.criteria) < i
           /\ \E m \in 1..Len(said) :
                  ParsedToken(i).value \in {said[m].detail,
                      SubSeq(said[m].text, 1, Len(ParsedToken(i).value))}

\* C4: a text operator on a numeric field makes the parse fail; the token
\* reaches neither a predicate nor the database, and nothing crashes.
C4_TextOperatorOnNumberRejected ==
    \A i \in 1..Len(run.query) :
        (/\ IsDone({"query", "legacy_query"}) /\ run.parse_called
         /\ FirstFailing(i)
         /\ TextOperatorOnNumber(ParsedToken(i)))
        => /\ ~run.parse_ok
           /\ run.criteria = <<>>
           /\ run.executed = <<>>
           /\ run.fault = "none"

C6_FirstDelimiterWins ==
    IsDone({"query"}) /\ run.tokenized
    /\ FirstDelimiter(Tail(run.args), 1) # 0
    => /\ run.formatter = Tail(run.args)[FirstDelimiter(Tail(run.args), 1)]
       /\ run.query = SubSeq(Tail(run.args), 1,
                             FirstDelimiter(Tail(run.args), 1) - 1)

\* C7: a query command given fewer than 2 arguments replies with the
\* "needs a query" message and does nothing else: no entity lookup, no
\* parsing, no database query, no result messages.
C7_InsufficientArguments ==
    IsDone({"query", "legacy_query"}) /\ Len(run.args) < 2
    => /\ said = NeedsQuery
       /\ run.model = None
       /\ ~run.tokenized
       /\ ~run.parse_called
       /\ run.executed = <<>>
       /\ ~run.show_called
       /\ run.fault = "none"
       /\ run.logged = <<>>

\* C7 witness: $query with the entity selector alone.
C7_Witness ==
    /\ IsDone({"query"})
    /\ run.args = <<"track">>
    /\ said = NeedsQuery

\* C8: a selector that names no registered entity kind (also one ending in
\* "s") ends the query command with the "is not something that can be
\* queried" message (or the entity is resolved), never with a fault; no token
\* is parsed and the database is not queried after that message.
C8_UnknownEntityKind ==
    IsDone({"query"}) /\ Len(run.args) >= 2
    /\ Head(run.args) \notin {"track", "album"}
    => /\ run.fault = "none"
       /\ \/ run.model # None
          \/ /\ said = <<Say(NotQueryable(Head(run.args)), "")>>
             /\ ~run.parse_called
             /\ run.executed = <<>>

\* C9: a field clause naming a field that is not registered for the entity
\* kind makes the command fail with an error: nothing is executed or shown.
C9_UnknownClauseFieldRejected ==
    IsDone({"query"}) /\ run.tokenized /\ run.formatter # None
    /\ run.requested \ (Attributes(run.model) \cup DefaultDisplayFields(run.model)) # {}
    => /\ run.executed = <<>>
       /\ ~run.show_called

\* C10: whenever rows are shown, the field set is the default display fields
\* of the entity kind without a clause, the requested names with ":", and
\* the defaults minus the requested names with ":-"; album notes and track
\* lyrics are shown only when ":" names them.
C10_ResolvedFields ==
    IsDone({"query", "album", "track"}) /\ run.show_called
    => /\ run.fields =
              IF run.cmd = "query"
              THEN ResolvedFields(run.model, Tail(run.args),
                                  FirstDelimiter(Tail(run.args), 1))
              ELSE DefaultDisplayFields(run.model)
       /\ run.fields \cap {"notes", "lyrics"} # {}
          => /\ run.cmd = "query"
             /\ run.formatter = ":"
             /\ run.fields \cap {"notes", "lyrics"} \subseteq run.requested

\* C10 witness: `track :- name` shows the defaults without the name.
C10_Witness ==
    /\ IsDone({"query"})
    /\ run.args = <<"track", ":-", "name">>
    /\ run.show_called
    /\ run.fields = DefaultDisplayFields("Track") \ {"name"}
    /\ Len(run.results) = 3

----------------------------------------------------------------------------
(* The field clause and the order of the rendered entries.                 *)

Reverse(list) == [i \in 1..Len(list) |-> list[Len(list) + 1 - i]]

\* the names typed after the delimiter the command honoured
ClauseNames ==
    SubSeq(Tail(run.args), Len(run.query) + 2, Len(Tail(run.args)))

\* the same names in the opposite order, the last one typed once more
Reordered(names) ==
    IF Len(names) = 0 THEN <<>>
    ELSE Reverse(names) \o <<names[Len(names)]>>

\* the arguments of the command with the clause names reordered
ReorderedArgs ==
    <<Head(run.args)>> \o run.query \o <<run.formatter>>
        \o Reordered(ClauseNames)

SameReply(out) ==
    /\ out.said = said
    /\ out.to_show = run.to_show
    /\ out.fields = run.fields
    /\ out.results = run.results

\* the display names of the fields of an entity, in registry order
RegistryOrder(model) ==
    IF model = "Track"
    THEN <<"Name", "Album", "Vocalist(s)", "Lyricist(s)", "Lyrics">>
    ELSE <<"Name", "Catalog number", "VGMdb URL", "Cover art", "Tracks",
           "Notes">>

InRegistryOrder(info, registry) ==
    /\ \A a \in 1..Len(info) : IndexOf(registry, info[a].key, 1) > 0
    /\ \A a, b \in 1..Len(info) :
           a < b => IndexOf(registry, info[a].key, 1)
                        < IndexOf(registry, info[b].key, 1)

----------------------------------------------------------------------------
(* Fuzzy patterns.                                                         *)

RECURSIVE BoundedPattern(_)
\* the bounded pattern of a value: a backslash before each backslash,
\* underscore and percent, and the wildcard % for each space
BoundedPattern(value) ==
    IF Len(value) = 0 THEN ""
    ELSE (IF Ch(value, 1) \in {"\\", "_", "%"} THEN "\\" \o Ch(value, 1)
          ELSE IF Ch(value, 1) = " " THEN "%"
          ELSE Ch(value, 1)) \o BoundedPattern(Rest(value, 2))

UnboundedPattern(value) == "%" \o BoundedPattern(value) \o "%"

\* the patterns of a name search: bounded first, unbounded second
NamePatterns(calls, name) ==
    /\ Len(calls) \in {1, 2}
    /\ calls[1].criteria[1].value = BoundedPattern(name)
    /\ Len(calls) = 2 => calls[2].criteria[1].value = UnboundedPattern(name)

\* C12: the fuzzy pattern of a value escapes each backslash, underscore and
\* percent with a backslash and then turns each space into %; the bounded
\* pattern is that text, the unbounded one is it between two %.  This is what
\* the name searches, the ~= and ~ tokens of a query, and the ~ items of the
\* single-file bot hand to the database; `uni` gives `uni` and `%uni%`.
C12_FuzzyPattern ==
    /\ IsDone({"album", "track", "lyrics"}) /\ Len(run.args) >= 1
       => NamePatterns(run.executed, Join(" ", run.args))
    /\ IsDone({"album"}) /\ run.args = <<"uni">>
       => /\ run.executed[1].criteria[1].value = "uni"
          /\ run.executed[2].criteria[1].value = "%uni%"
    /\ IsDone({"query"})
       => \A i \in 1..Len(run.criteria) :
              /\ ParsedToken(i).op = "~="
                 => run.criteria[i].value = BoundedPattern(ParsedToken(i).value)
              /\ ParsedToken(i).op = "~"
                 => run.criteria[i].value = UnboundedPattern(ParsedToken(i).value)
    /\ IsDone({"legacy_query"}) /\ Len(run.executed) = 1
       => \A i \in 1..Len(run.criteria) :
              run.criteria[i].op = "~"
              => run.executed[1].criteria[i].value
                     = UnboundedPattern(run.criteria[i].value)

\* C12 witness: `$track a_b 50%` searches `a\_b%50\%`, then `%a\_b%50\%%`.
C12_Witness ==
    /\ IsDone({"track"})
    /\ run.args = <<"a_b", "50%">>
    /\ Len(run.executed) = 2
    /\ run.executed[1].criteria[1].value = "a\\_b%50\\%"
    /\ run.executed[2].criteria[1].value = "%a\\_b%50\\%%"

----------------------------------------------------------------------------
(* The name search.                                                        *)

\* the rows of a model whose name matches a pattern, case-insensitively
RowsNamed(model, pattern) ==
    SelectSeq(Table(model), LAMBDA row : LikeMatch(pattern, row.name, TRUE))

\* what a name search does, given the rows of the bounded match
TwoTierSearch(name, bounded_rows) ==
    /\ NamePatterns(run.executed, name)
    /\ \A i \in 1..Len(run.executed) : run.executed[i].model = run.model
    /\ IF Len(bounded_rows) > 0
       THEN Len(run.executed) = 1 /\ run.results = bounded_rows
       ELSE /\ Len(run.executed) = 2
            /\ run.results = RowsNamed(run.model, UnboundedPattern(name))

----------------------------------------------------------------------------
(* The predicates of the filter tokens.                                    *)

\* a text satisfies a scalar-string predicate: equality for =, the bounded
\* pattern for ~=, the unbounded pattern for ~; an absent text satisfies none
ScalarSatisfies(text, op, value) ==
    /\ text # None
    /\ IF op = "=" THEN text = value
       ELSE IF op = "~=" THEN LikeMatch(BoundedPattern(value), text, TRUE)
       ELSE LikeMatch(UnboundedPattern(value), text, TRUE)

\* the criterion compares with the operator and the value of the token
CompiledFrom(c, tok) ==
    /\ c.column = tok.kind
    /\ c.operator = (IF tok.op = "=" THEN "eq" ELSE "ilike_op")
    /\ c.value = (IF tok.op = "=" THEN tok.value
                  ELSE IF tok.op = "~=" THEN BoundedPattern(tok.value)
                  ELSE UnboundedPattern(tok.value))

\* the tracks with a related entity, in the collection the token names,
\* whose name satisfies the token
TracksRelated(tok) ==
    SelectSeq(catalog.tracks, LAMBDA row :
        \E j \in 1..Len(row[tok.kind]) :
            ScalarSatisfies(row[tok.kind][j], tok.op, tok.value))

\* C14: the predicate compiled for a token on vocalists or lyricists is a
\* membership predicate over the related names, with the operator and the
\* value of the token; the predicate of any other field is never one.
C14_RelationMembership ==
    IsDone({"query"}) /\ run.parse_ok
    => /\ \A i \in 1..Len(run.criteria) :
              /\ run.criteria[i].any
                 <=> FieldName(run.query[i]) \in {"vocalists", "lyricists"}
              /\ run.criteria[i].any
                 => CompiledFrom(run.criteria[i], ParsedToken(i))
       /\ Len(run.criteria) = 1 /\ run.criteria[1].any /\ run.show_called
          => run.results = TracksRelated(ParsedToken(1))

\* C14 witness: `track lyricists=mpi` finds the one track mpi wrote.
C14_Witness ==
    /\ IsDone({"query"})
    /\ run.args = <<"track", "lyricists=mpi">>
    /\ run.criteria[1].any
    /\ run.show_called
    /\ Len(run.results) = 1
    /\ run.results[1].name = "Binary Star"


\* the rows whose field equals the value exactly
ExactRows(rows, kind, value, numeric) ==
    SelectSeq(rows, LAMBDA row :
        IF numeric THEN IsIntegerText(value) /\ row[kind] = IntValue(value)
        ELSE row[kind] = value)

\* = on a scalar field in bot.py: an equality criterion with the value of
\* the token, selecting the rows whose field equals it
EqualsExactInBot ==
    IsDone({"query"}) /\ run.parse_ok
    => /\ \A i \in 1..Len(run.criteria) :
              ParsedToken(i).op = "=" /\ ~run.criteria[i].any
              => CompiledFrom(run.criteria[i], ParsedToken(i))
       /\ /\ Len(run.criteria) = 1 /\ run.show_called
          /\ run.criteria[1].operator = "eq" /\ ~run.criteria[1].any
          => run.results =
                 ExactRows(Table(run.model), ParsedToken(1).kind,
                           ParsedToken(1).value,
                           ParsedToken(1).kind \in NumericKinds)

\* = in sawanobot.py: the rows whose field equals the value
EqualsExactInLegacy ==
    /\ IsDone({"legacy_query"}) /\ run.show_called
    /\ Len(run.criteria) = 1 /\ run.criteria[1].op = "="
    => run.results =
           ExactRows(LegacyTable(run.model), run.criteria[1].kind,
                     run.criteria[1].value,
                     run.criteria[1].kind \in NumericKinds)

\* C15: a token with = on a scalar text or number field compiles to exact
\* equality between the field and the value of the token, taken verbatim:
\* not escaped, not wrapped, not matched as a pattern or regardless of case.
C15_EqualsIsExact == EqualsExactInBot /\ EqualsExactInLegacy


\* a row satisfies the predicate of a valid token of bot.py
TokenHolds(row, tok) ==
    IF tok.kind \in {"vocalists", "lyricists"}
    THEN \E j \in 1..Len(row[tok.kind]) :
             ScalarSatisfies(row[tok.kind][j], tok.op, tok.value)
    ELSE IF tok.kind \in NumericKinds THEN row[tok.kind] = IntValue(tok.value)
    ELSE ScalarSatisfies(row[tok.kind], tok.op, tok.value)

AllTokensValid ==
    \A i \in 1..Len(run.query) : ~FailsValidation(ParsedToken(i))

\* the rows the single-file bot finds for one token alone
LegacyRowsFor(selector, part) ==
    Range(legacy_query(<<selector, part>>).results)

\* C16: when every filter token of a query is valid, one predicate per token
\* is produced, in the order of the tokens, and the rows found are those
\* satisfying all of them; with no token (`track :`) every row is found.
C16_Conjunction ==
    /\ IsDone({"query"}) /\ run.parse_called /\ AllTokensValid
       => /\ run.parse_ok
          /\ Len(run.criteria) = Len(run.query)
          /\ \A i \in 1..Len(run.criteria) :
                 CompiledFrom(run.criteria[i], ParsedToken(i))
          /\ run.executed = <<Call(run.model, run.criteria)>>
          /\ run.results =
                 SelectSeq(Table(run.model), LAMBDA row :
                     \A i \in 1..Len(run.query) :
                         TokenHolds(row, ParsedToken(i)))
    /\ IsDone({"query"}) /\ run.args = <<"track", ":">>
       => run.results = catalog.tracks
    /\ IsDone({"legacy_query"}) /\ run.show_called
       => /\ Len(run.criteria) = Len(run.query)
          /\ \A i \in 1..Len(run.criteria) :
                 /\ run.criteria[i].kind = ParsedToken(i).kind
                 /\ run.criteria[i].op = ParsedToken(i).op
          /\ run.results =
                 SelectSeq(LegacyTable(run.model), LAMBDA row :
                     \A i \in 1..Len(run.query) :
                         row \in LegacyRowsFor(Head(run.args), run.query[i]))

\* C16 witness: `track vocalists~mpi disc=1` finds the one track of disc 1
\* that mpi sings.
C16_Witness ==
    /\ IsDone({"query"})
    /\ run.args = <<"track", "vocalists~mpi", "disc=1">>
    /\ Len(run.criteria) = 2
    /\ Len(run.results) = 1
    /\ Len(ExactRows(catalog.tracks, "disc", "1", TRUE)) = 2


\* a token read as <field><operator><value>, the operator starting at p:
\* the value is everything after the operator
TokenSplit(part, p) ==
    IF p > Len(part) THEN [kind |-> part, op |-> "", value |-> ""]
    ELSE IF Ch(part, p) = "="
    THEN [kind |-> SubSeq(part, 1, p - 1), op |-> "=",
          value |-> Rest(part, p + 1)]
    ELSE IF p < Len(part) /\ Ch(part, p + 1) = "="
    THEN [kind |-> SubSeq(part, 1, p - 1), op |-> "~=",
          value |-> Rest(part, p + 2)]
    ELSE [kind |-> SubSeq(part, 1, p - 1), op |-> "~",
          value |-> Rest(part, p + 1)]

SplitToken(i) == TokenSplit(run.query[i], FirstOperator(run.query[i], 1))

\* C17: a token made of a registered field, an operator valid for the field
\* and any value (empty, or holding `:`, spaces or `+`) parses and compiles,
\* and the predicate carries the remainder of the token verbatim.
C17_AnyValueParses ==
    /\ IsDone({"query"}) /\ run.parse_called
    /\ \A i \in 1..Len(run.query) :
           /\ SplitToken(i).kind \in Vocabulary(run.model)
           /\ SplitToken(i).op \in {"=", "~=", "~"}
           /\ SplitToken(i).kind \in NumericKinds
              => SplitToken(i).op = "=" /\ IsIntegerText(SplitToken(i).value)
    => /\ run.parse_ok
       /\ Len(run.criteria) = Len(run.query)
       /\ \A i \in 1..Len(run.criteria) :
              CompiledFrom(run.criteria[i], SplitToken(i))

----------------------------------------------------------------------------
(* The rendered entries.                                                   *)

\* the row has a value for the field, and the value is not empty
PresentIn(model, row, f) ==
    IF f \in IntegerColumns(model) \cup {"album"} THEN TRUE
    ELSE IF f \in {"vocalists", "lyricists"} THEN Len(row[f]) > 0
    ELSE IF f = "tracks" THEN Len(TracksOf(catalog, row)) > 0
    ELSE IF f = "cover_art" THEN FALSE
    ELSE row[f] \notin {None, ""}

\* C18: for every row shown, there is an entry for a field exactly when the
\* field is in the resolved field set and the row's value for it is present
\* and not empty: as many entries as there are such fields, none for an
\* empty collection, none for a field outside the set.
C18_EntriesOfSelectedFields ==
    IsDone({"query", "album", "track", "lyrics"})
    /\ run.show_called /\ run.fault = "none"
    => \A i \in 1..Len(run.results) :
           Len(run.to_show[i]) =
               Cardinality({f \in run.fields \cap
                                (Vocabulary(run.model)
                                     \cup DefaultDisplayFields(run.model)) :
                              PresentIn(run.model, run.results[i], f)})

----------------------------------------------------------------------------
(* The messages of a reply.                                                *)

\* the info dicts with at least one entry, in result order
ShownBodies == SelectSeq(run.to_show, LAMBDA info : Len(info) > 0)

\* C19: the reply to a result list is one count line with the number of rows
\* found, then one body message for each row that has at least one entry, in
\* result order; a row without entries has no message and is still counted.
C19_CountLineThenBodies ==
    IsDone({"query", "album", "track", "lyrics", "legacy_query"})
    /\ run.show_called
    => /\ Len(said) >= 1 + Len(ShownBodies)
       /\ run.cmd # "legacy_query" => Len(said) = 1 + Len(ShownBodies)
       /\ said[Len(said) - Len(ShownBodies)]
              = Say(ToString(Len(run.results)) \o " result(s) found!", "")
       /\ \A j \in 1..Len(ShownBodies) :
              said[Len(said) - Len(ShownBodies) + j]
                  = ItemMessage(ShownBodies[j])[1]


\* C20: a rendered long free-text field, the lyrics of a track or the notes
\* of an album, is shown as a line break followed by the text; the text of
\* the other scalar fields is shown unaltered.
C20_LongTextOnItsOwnLine ==
    IsDone({"query", "album", "track", "lyrics"})
    /\ run.show_called /\ run.fault = "none"
    => \A i \in 1..Len(run.to_show) :
           \A e \in 1..Len(run.to_show[i]) :
               /\ run.to_show[i][e].key = "Lyrics"
                  => run.to_show[i][e].value = "\n" \o run.results[i].lyrics
               /\ run.to_show[i][e].key = "Notes"
                  => run.to_show[i][e].value = "\n" \o run.results[i].notes
               /\ run.to_show[i][e].key = "Name"
                  => run.to_show[i][e].value = run.results[i].name
               /\ run.to_show[i][e].key = "Catalog number"
                  => run.to_show[i][e].value = run.results[i].catalog

----------------------------------------------------------------------------
(* Faults of a handler.                                                    *)

\* C21: when a handler raises, the command still returns, and the user gets
\* exactly one failure notice, the last message of the reply, which names
\* the operation and holds no traceback or exception text.
C21_GenericFailureNotice ==
    IsDone({"query", "album", "track", "lyrics", "legacy_query"})
    /\ run.fault # "none"
    => /\ Len(said) >= 1
       /\ said[Len(said)] =
              Say("*BOOOOOOOM* Function where the error occurred: "
                      \o BACKQUOTE
                      \o (IF run.cmd = "legacy_query" THEN "query"
                          ELSE run.cmd)
                      \o BACKQUOTE,
                  "")
       /\ \A m \in 1..(Len(said) - 1) : said[m].detail # run.fault

----------------------------------------------------------------------------
(* What the commands leave behind.                                         *)

\* C22: whatever commands have run, with whatever arguments and outcome,
\* the catalog holds the entities it started with, the registry maps each
\* table to its entity kind and to a grammar of that kind's field
\* vocabulary, and a command that names no field clause shows the default
\* display fields of its kind.
C22_CommandsChangeNothing ==
    /\ catalog = [albums |-> AlbumRows, tracks |-> TrackRows]
    /\ models = ("albums" :> "Album") @@ ("tracks" :> "Track")
    /\ DOMAIN query_grammars = DOMAIN models
    /\ \A t \in DOMAIN query_grammars :
           Range(query_grammars[t].kind) = Vocabulary(models[t])
    /\ (/\ IsDone({"query", "album", "track"})
        /\ run.show_called
        /\ run.formatter = None
        => run.fields = DefaultDisplayFields(run.model))

\* a query with an Exclude clause showed its rows with fewer fields than
\* the defaults, and the catalog and the registry are as they were
C22_Witness ==
    /\ IsDone({"query"})
    /\ run.formatter = ":-"
    /\ run.requested \cap DefaultDisplayFields(run.model) # {}
    /\ run.show_called
    /\ run.fields # DefaultDisplayFields(run.model)
    /\ C22_CommandsChangeNothing

----------------------------------------------------------------------------
(* The two-character operator.                                             *)

\* C23: a token f~=v on a string or relation field parses as f, ~= and v,
\* never as f, ~ and =v, and is compiled to the bounded pattern of v; a
\* token f~v whose value does not start with = parses as f, ~ and v and is
\* compiled to the unbounded pattern.
C23_BoundedOperatorPreferred ==
    IsDone({"query"}) /\ run.parse_called
    => \A i \in 1..run.parts_parsed :
           /\ SplitToken(i).kind \in Vocabulary(run.model) \ NumericKinds
           /\ SplitToken(i).op \in {"~=", "~"}
           => /\ ParsedToken(i) =
                     [ok |-> TRUE, kind |-> SplitToken(i).kind,
                      op |-> SplitToken(i).op, value |-> SplitToken(i).value]
              /\ i <= Len(run.criteria)
                 => CompiledFrom(run.criteria[i], SplitToken(i))

----------------------------------------------------------------------------
(* The default display fields and the attributes of the entities.          *)

\* C24: when a command shows a non-empty result list with the default
\* display fields of its entity kind, every one of those fields is an
\* attribute of the entities of that kind, and the command raises no fault.
C24_DefaultFieldsAreReadable ==
    /\ IsDone({"query", "album", "track"})
    /\ run.show_called
    /\ run.fields = DefaultDisplayFields(run.model)
    /\ Len(run.results) > 0
    => /\ run.fields \subseteq Attributes(run.model)
       /\ run.fault = "none"

====
